---- MODULE Spec2Model ----
(***************************************************************************)
(* A state-machine model of the CityLearn SAC learning core                *)
(* (src/agent_SAC.py) and of the electric-vehicle charger                  *)
(* (src/citylearn/electric_vehicle_charger.py,                             *)
(* src/citylearn/electric_vehicle.py).                                     *)
(*                                                                         *)
(* Numbers.  Python floats are modelled by exact fixed-point integers:     *)
(*   - network parameters in units of 1/ParamUnit, so that the Polyak      *)
(*     average with tau = TauNum/TauDen is computed without rounding;      *)
(*   - action components in units of 1/ActUnit;                            *)
(*   - rewards in units of 1/RewUnit.                                      *)
(* Each subsystem has a specification of its own (SpecReplay, ...); the    *)
(* variables of the other subsystems stay at their initial values there.   *)
(***************************************************************************)
EXTENDS Integers, Sequences, FiniteSets, TLC

VARIABLES
    \* ReplayMemory (agent_SAC.py:634-652)
    capacity,       \* self.capacity
    buffer,         \* self.buffer, a list of transitions
    position,       \* self.position, the write cursor
    \* what the last call returned or raised
    batch,          \* the value ReplayMemory.sample returned last (NoBatch: none yet)
    raised,         \* the exception the last call ended in ("none": it returned)
    lastOp,         \* the operation that ran last
    arg,            \* the argument of the last call (sample: its batch_size;
                    \* add_to_buffer: its rewards; update_parameters: its updates)
    \* history (not program state): every transition pushed so far, in order
    pushed,
    \* SAC learner (agent_SAC.py:45-460)
    critic,                     \* parameters of self.critic
    critic_target,              \* parameters of self.critic_target
    policy,                     \* parameters of self.policy
    alpha,                      \* self.alpha, in units of 1/RewUnit
    batch_size,                 \* self.batch_size
    target_update_interval,     \* self.target_update_interval
    continue_training,          \* self.continue_training
    automatic_entropy_tuning,   \* self.automatic_entropy_tuning
    day_list,                   \* self.day_list
    autoregressive_action_memory, \* self.autoregressive_action_memory.buffer
    reward_tracker,             \* self.reward_tracker
    net_electric_consumption,   \* self.env.net_electric_consumption
    \* values the last call computed or returned
    ret,            \* what add_to_buffer returned last
    max_peak,       \* add_to_buffer's local max_peak
    next_q_value,   \* update_parameters' local next_q_value, one per sample
    nUpdates,       \* number of update_parameters calls that returned
    \* GaussianPolicy / DeterministicPolicy (agent_SAC.py:516-605)
    policy_type,    \* "Gaussian" or "Deterministic"
    action_scale,   \* self.action_scale, one entry per action component
    action_bias,    \* self.action_bias
    pi_action,      \* the action sample() returned last
    pi_mean,        \* the mean sample() returned last
    \* Charger (electric_vehicle_charger.py) and the electric vehicle it serves
    \* (electric_vehicle.py)
    time_step,                  \* the charger's self.time_step
    connected_ev,               \* self.connected_ev ("None" or "ev")
    incoming_ev,                \* self.incoming_ev
    electricity_consumption,    \* self.__electricity_consumption
    electricity_consumption_without_partial_load,
    past_connected_evs,         \* self.__past_connected_evs
    past_charging_action_values, \* self.__past_charging_action_values
    efficiency,                 \* self.efficiency, in units of 1/EffUnit
    max_charging_power,         \* self.max_charging_power
    max_discharging_power,      \* self.max_discharging_power
    battery,                    \* the vehicle's self.battery
    aux_battery,                \* the vehicle's self.aux_battery
    ev_time_step,               \* the vehicle's self.time_step
    \* values the last charger or vehicle call computed
    energy,         \* update_connected_ev_soc's local energy, before efficiency
    energy_kwh,     \* update_connected_ev_soc's local energy_kwh
    ad_hoc,         \* what adjust_ev_soc_on_system_connection passed to the
                    \* two set_ad_hoc_charge calls
    adjusted,       \* the locals of the adjust_ev_soc_on_system_connection call of
                    \* the last electric_vehicle.next_time_step (<<>>: it made none)
    ev_simulation,  \* self.ev_simulation: the vehicle's trace, one entry per
                    \* time step (<<>>: the values are drawn when they are read)
    nCharges,       \* number of update_connected_ev_soc calls so far
    twin,           \* a second run of the same calls on another auxiliary battery:
                    \* its batteries and consumption series (<<>>: no second run)
    \* SAC.select_action (agent_SAC.py:202-276)
    select_cfg,     \* the fields select_action reads: constrain_action_space,
                    \* evaluate, obs_size, act_size, shared_act, autoregressive_size
    action_tracker  \* self.action_tracker

memVars == <<capacity, buffer, position, pushed>>

callVars == <<batch, raised, lastOp, arg>>

netVars == <<critic, critic_target, policy, alpha>>

cfgVars == <<batch_size, target_update_interval, continue_training,
             automatic_entropy_tuning>>

shapeVars == <<day_list, autoregressive_action_memory, reward_tracker>>

envVars == <<net_electric_consumption>>

obsVars == <<ret, max_peak, next_q_value, nUpdates>>

learnerVars == <<netVars, cfgVars, shapeVars, envVars, obsVars>>

policyVars == <<policy_type, action_scale, action_bias, pi_action, pi_mean>>

seriesVars == <<electricity_consumption, electricity_consumption_without_partial_load,
                past_connected_evs, past_charging_action_values>>

ratingVars == <<efficiency, max_charging_power, max_discharging_power>>

evVars == <<battery, aux_battery, ev_time_step>>

chargerVars == <<time_step, connected_ev, incoming_ev, seriesVars, ratingVars, evVars,
                 energy, energy_kwh, ad_hoc, adjusted, ev_simulation, nCharges, twin>>

selectVars == <<select_cfg, action_tracker>>

\* the variables outside the learner and its replay memory
otherVars == <<policyVars, chargerVars, selectVars>>

vars == <<memVars, callVars, learnerVars, otherVars>>

----------------------------------------------------------------------------
(* Bounds of the exploration *)

\* largest ReplayMemory capacity explored
MaxCapacity == 3
\* largest number of push calls in one run
MaxPushes == 4
\* largest batch_size passed to sample
MaxBatch == 2
\* the learner's replay_size and batch_size, scaled down
ReplaySize == 3
BatchSize == 2
\* largest target_update_interval and largest `updates` argument explored
MaxInterval == 2
\* largest number of add_to_buffer calls and of successful
\* update_parameters calls in one run of the learner
MaxCalls == 2
MaxUpdates == 1
\* largest number of add_to_buffer calls in one run of the reward shaping
MaxShapeCalls == 1
\* hours fed in one run of the daily-peak tracking (more than one day), and
\* how many of them may depart from the base consumption
MaxDayCalls == 26
MaxPeaks == 2
\* largest charger time step, and largest number of update_connected_ev_soc
\* calls, in one run of the charger
MaxTimeSteps == 1
MaxCharges == 1

\* largest number of select_action calls in one run
MaxSelects == 1

\* longest demand vector passed to get_rewards
MaxAgents == 3

----------------------------------------------------------------------------
(* Units of the fixed-point numbers *)

\* tau = TauNum / TauDen = 0.003 (agent_SAC.py:80)
TauNum == 3
TauDen == 1000
\* gamma = GammaNum / GammaDen = 0.9 (agent_SAC.py:79)
GammaNum == 9
GammaDen == 10
\* a network parameter p is the integer p * ParamUnit; two Polyak averages
\* of whole numbers are exact in this unit
ParamUnit == TauDen * TauDen
\* a reward r is the integer r * RewUnit
RewUnit == 10 * 10
\* an action component a is the integer a * ActUnit
ActUnit == 2 * 1000

----------------------------------------------------------------------------
(* Helpers *)

Min(a, b) == IF a <= b THEN a ELSE b

Max(a, b) == IF a >= b THEN a ELSE b

Range(s) == {s[i] : i \in DOMAIN s}

\* the injective sequences of length k over the set S: the orders in which
\* k distinct elements of S can be drawn
RECURSIVE Draws(_, _)
Draws(S, k) ==
    IF k = 0 THEN {<<>>}
    ELSE UNION {{<<x>> \o d : d \in Draws(S \ {x}, k - 1)} : x \in S}

\* the last k elements of s (all of s when it is shorter)
LastK(s, k) == SubSeq(s, Max(1, Len(s) - k + 1), Len(s))

----------------------------------------------------------------------------
(* ReplayMemory *)

\* a transition is the tuple (state, action, reward, next_state, done) that
\* push stores (agent_SAC.py:643)
Transition(state, action, reward, next_state, done) ==
    <<state, action, reward, next_state, done>>

\* the transitions the stand-alone buffer is fed with
SampleTransitions ==
    { Transition(<<0, 0, 1>>, <<0>>, 0, <<0, 0, 2>>, FALSE),
      Transition(<<0, 0, 2>>, <<2>>, 50, <<0, 0, 3>>, FALSE),
      Transition(<<0, 0, 24>>, <<-2>>, -25, <<0, 0, 1>>, TRUE) }

NoBatch == [idx |-> <<>>, state |-> <<>>, action |-> <<>>, reward |-> <<>>,
            next_state |-> <<>>, done |-> <<>>]

\* ReplayMemory.__init__
ReplayMemoryInit(cap) ==
    /\ capacity = cap
    /\ buffer = <<>>
    /\ position = 0

\* the list after push's `if len(self.buffer) < self.capacity: append(None)`
PushGrow(buf, cap) == IF Len(buf) < cap THEN Append(buf, "None") ELSE buf

\* a push that, once the list is full, overwrites the newest transition
\* instead of the oldest
PushSlotNewest(pos) ==
    IF Len(buffer) < capacity THEN pos + 1 ELSE ((pos + capacity - 1) % capacity) + 1

\* the slot push writes: self.buffer[self.position] (0-based in the source)
PushSlot(pos) == pos + 1

\* a cursor that is advanced without wrapping
PushNextNoWrap(pos, cap) == pos + 1

\* the cursor after push: (self.position + 1) % self.capacity
PushNext(pos, cap) == (pos + 1) % cap

\* ReplayMemory.push
Push(t) ==
    /\ buffer' = [PushGrow(buffer, capacity) EXCEPT ![PushSlot(position)] = t]
    /\ position' = PushNext(position, capacity)
    /\ pushed' = Append(pushed, t)

\* a drawing with replacement (random.choices in place of random.sample)
SampleDrawsWithReplacement(buf, n) == [1..n -> DOMAIN buf]

\* random.sample(self.buffer, batch_size): the orders of batch_size distinct
\* positions of the list
SampleDraws(buf, n) == Draws(DOMAIN buf, n)

\* random.sample raises ValueError for a sample larger than the population or
\* negative; with an empty batch zip(*batch) yields nothing and the unpacking
\* into five names raises ValueError
SampleFails(buf, n) == n > Len(buf) \/ n < 0 \/ n = 0

\* map(np.stack, zip(*batch)): the five parallel sequences, in sample order
Stack(buf, idx) ==
    [idx |-> idx,
     state |-> [i \in DOMAIN idx |-> buf[idx[i]][1]],
     action |-> [i \in DOMAIN idx |-> buf[idx[i]][2]],
     reward |-> [i \in DOMAIN idx |-> buf[idx[i]][3]],
     next_state |-> [i \in DOMAIN idx |-> buf[idx[i]][4]],
     done |-> [i \in DOMAIN idx |-> buf[idx[i]][5]]]

----------------------------------------------------------------------------
(* The stand-alone replay buffer: pushes and samples interleaved *)

\* no call made yet
NoCall ==
    /\ batch = NoBatch
    /\ raised = "none"
    /\ lastOp = "init"
    /\ arg = 0

\* the learner's variables where no learner exists
NoShaping ==
    /\ policy = <<>> /\ alpha = 0
    /\ batch_size = 0 /\ target_update_interval = 0
    /\ continue_training = FALSE /\ automatic_entropy_tuning = FALSE
    /\ day_list = <<>> /\ autoregressive_action_memory = <<>>
    /\ reward_tracker = <<>>
    /\ net_electric_consumption = <<>>
    /\ ret = <<>> /\ max_peak = 0 /\ next_q_value = <<>> /\ nUpdates = 0

NoLearner ==
    /\ critic = <<>> /\ critic_target = <<>>
    /\ NoShaping

\* no select_action call under study
NoSelect == select_cfg = <<>> /\ action_tracker = <<>>

\* no policy network under study
NoPolicy ==
    /\ policy_type = "none" /\ action_scale = <<>> /\ action_bias = <<>>
    /\ pi_action = <<>> /\ pi_mean = <<>>

\* no charger and no vehicle under study
NoCharger ==
    /\ time_step = 0 /\ connected_ev = "None" /\ incoming_ev = "None"
    /\ electricity_consumption = <<>>
    /\ electricity_consumption_without_partial_load = <<>>
    /\ past_connected_evs = <<>> /\ past_charging_action_values = <<>>
    /\ efficiency = 0 /\ max_charging_power = 0 /\ max_discharging_power = 0
    /\ battery = <<>> /\ aux_battery = <<>> /\ ev_time_step = 0
    /\ energy = 0 /\ energy_kwh = 0 /\ ad_hoc = <<>> /\ adjusted = <<>> /\ nCharges = 0 /\ twin = <<>>
    /\ ev_simulation = <<>>

\* no replay memory
NoMemory ==
    /\ capacity = 0 /\ buffer = <<>> /\ position = 0 /\ pushed = <<>>

ReplayInit ==
    /\ \E cap \in 1..MaxCapacity : ReplayMemoryInit(cap)
    /\ NoCall
    /\ NoSelect
    /\ pushed = <<>>
    /\ NoLearner
    /\ NoPolicy
    /\ NoCharger

DoPush ==
    /\ Len(pushed) < MaxPushes
    /\ \E t \in SampleTransitions : Push(t)
    /\ raised' = "none"
    /\ lastOp' = "push"
    /\ UNCHANGED <<capacity, batch, arg, learnerVars, otherVars>>

DoSample ==
    \E n \in -1..MaxBatch :
        /\ ~SampleFails(buffer, n)
        /\ \E idx \in SampleDraws(buffer, n) : batch' = Stack(buffer, idx)
        /\ raised' = "none"
        /\ lastOp' = "sample"
        /\ arg' = n
        /\ UNCHANGED <<memVars, learnerVars, otherVars>>

DoSampleError ==
    \E n \in -1..MaxBatch :
        /\ SampleFails(buffer, n)
        /\ raised' = "ValueError"
        /\ lastOp' = "sample"
        /\ arg' = n
        /\ UNCHANGED <<memVars, batch, learnerVars, otherVars>>

ReplayNext == DoPush \/ DoSample \/ DoSampleError

SpecReplay == ReplayInit /\ [][ReplayNext]_vars

\* C1: after n pushes on a buffer of capacity C >= 1, with any samples
\* interleaved, len(buffer) = min(n, C) and position = n mod C.
C1_RingInvariant ==
    /\ capacity >= 1
    /\ Len(buffer) = Min(Len(pushed), capacity)
    /\ position = Len(pushed) % capacity

\* the cursor has wrapped at least once and a sample was taken since
C1_Witness ==
    /\ capacity >= 2
    /\ Len(pushed) > capacity
    /\ position = Len(pushed) % capacity
    /\ position # 0
    /\ lastOp = "sample"

\* C2: after n > C pushes the buffer holds exactly the C most recent
\* pushes: going round from the cursor, the slots hold the last C pushed
\* transitions from the oldest to the newest, so each push past capacity
\* replaced the oldest one and no other slot.
C2_MostRecent ==
    Len(pushed) > capacity =>
        /\ Len(buffer) = capacity
        /\ \A i \in 1..capacity :
              buffer[((position + i - 1) % capacity) + 1] = LastK(pushed, capacity)[i]

\* two pushes past capacity, into a buffer of several slots, with pushes
\* that differ
C2_Witness ==
    /\ capacity >= 2
    /\ Len(pushed) >= capacity + 2
    /\ Cardinality(Range(LastK(pushed, capacity))) >= 2
    /\ pushed[1] \notin Range(buffer)

\* what a successful sample(n) returns: n transitions from pairwise distinct
\* slots of the buffer, as five parallel sequences in sample order
SampleReturns(n) ==
    /\ raised = "none"
    /\ Len(batch.idx) = n
    /\ \A i \in 1..n : batch.idx[i] \in DOMAIN buffer
    /\ \A i, j \in 1..n : i # j => batch.idx[i] # batch.idx[j]
    /\ \A f \in {"state", "action", "reward", "next_state", "done"} : Len(batch[f]) = n
    /\ \A i \in 1..n :
          buffer[batch.idx[i]] =
              <<batch.state[i], batch.action[i], batch.reward[i],
                batch.next_state[i], batch.done[i]>>

\* C3 as stated: sample(batch_size) with batch_size <= len(buffer) returns
\* exactly batch_size transitions from pairwise distinct slots, as five
\* parallel sequences.
C3_Original ==
    (lastOp = "sample" /\ arg <= Len(buffer)) => SampleReturns(arg)

\* C3 amended: the same for 1 <= batch_size <= len(buffer); an empty (or
\* negative) batch raises ValueError.
C3_SampleDistinct ==
    /\ (lastOp = "sample" /\ 1 <= arg /\ arg <= Len(buffer)) => SampleReturns(arg)
    /\ (lastOp = "sample" /\ arg <= 0) => raised = "ValueError"

\* a whole buffer of several slots was sampled
C3_Witness ==
    /\ lastOp = "sample"
    /\ raised = "none"
    /\ arg = Len(buffer)
    /\ arg >= 2
    /\ Cardinality(Range(batch.state)) >= 2

----------------------------------------------------------------------------
(* Target-network updates (agent_SAC.py:626-632) *)

\* a Polyak average with the two weights exchanged
SoftUpdateSwapped(target, source, tauNum, tauDen) ==
    [i \in DOMAIN target |->
        (target[i] * tauNum + source[i] * (tauDen - tauNum)) \div tauDen]

\* soft_update(target, source, tau) with tau = tauNum / tauDen:
\* target_param * (1.0 - tau) + param * tau, parameter by parameter
SoftUpdate(target, source, tauNum, tauDen) ==
    [i \in DOMAIN target |->
        (target[i] * (tauDen - tauNum) + source[i] * tauNum) \div tauDen]

\* hard_update(target, source): target_param.data.copy_(param.data)
HardUpdate(target, source) == [i \in DOMAIN target |-> source[i]]

----------------------------------------------------------------------------
(* SAC.__init__ (agent_SAC.py:46-195) *)

\* the parameter vectors <<weight, bias>> that a gradient step or a saved
\* checkpoint may hold
ParamVectors ==
    { <<0, 0>>, <<ParamUnit, 0>>, <<ParamUnit, 2 * ParamUnit>> }

\* QNetwork(...) as weights_init_ leaves it: a drawn weight, bias 0.  The
\* seed is fixed (rand_seed = 101), and the critic and the target critic are
\* two networks drawn one after the other.
FreshCritic == <<ParamUnit, 0>>

FreshCriticTarget == <<2 * ParamUnit, 0>>

FreshPolicy == <<ParamUnit, 0>>

\* self.alpha = 0.2
InitialAlpha == RewUnit \div 5

\* self.day_list = [0]*24
HoursPerDay == 24

InitialDayList == [h \in 1..HoursPerDay |-> 0]

\* load_model: policy.load_state_dict(actor), critic.load_state_dict(critic)
LoadModel(saved_actor, saved_critic) ==
    /\ policy = saved_actor
    /\ critic = saved_critic

\* the learner as the constructor leaves it: the critic target is
\* hard-updated from the new critic (line 109); the checkpoint, when
\* continue_training is set, is loaded afterwards (lines 174-175)
SACInit(replay_size, bsize, interval, ct, saved_actor, saved_critic) ==
    /\ critic_target = HardUpdate(FreshCriticTarget, FreshCritic)
    /\ ReplayMemoryInit(replay_size)
    /\ autoregressive_action_memory = <<"0">>
    /\ reward_tracker = <<>>
    /\ IF ct THEN LoadModel(saved_actor, saved_critic)
             ELSE policy = FreshPolicy /\ critic = FreshCritic
    /\ alpha = InitialAlpha
    /\ batch_size = bsize
    /\ target_update_interval = interval
    /\ continue_training = ct
    /\ automatic_entropy_tuning = FALSE
    /\ day_list = InitialDayList
    \* self.env = env, an environment that has not stepped yet
    /\ net_electric_consumption = <<>>
    /\ ret = <<>> /\ max_peak = 0 /\ next_q_value = <<>> /\ nUpdates = 0

----------------------------------------------------------------------------
(* SAC.add_to_buffer (agent_SAC.py:278-385) *)

RECURSIVE SumSeq(_)
SumSeq(s) == IF s = <<>> THEN 0 ELSE s[1] + SumSeq(Tail(s))

RECURSIVE MaxSeq(_)
MaxSeq(s) == IF Len(s) = 1 THEN s[1] ELSE Max(s[1], MaxSeq(Tail(s)))

\* np.clip(x, lo, hi)
Clip(x, lo, hi) == IF x < lo THEN lo ELSE IF x > hi THEN hi ELSE x

\* 0.001, the magnitude under which an action component counts as no action
NearZero == ActUnit \div 1000

\* the two contributions of an action component (line 309)
PenalActive == 1
PenalInactive == -10

\* the weights sw4 = 0.5, sw5 = 1, sw6 = -1/2, sw7 = 2 (lines 185-189)
Sw4Num == 1
Sw4Den == 2
Sw5 == 1
Sw6Num == -1
Sw6Den == 2
Sw7 == 2
\* rewards/5 (line 308) and max_peak/50 (line 354)
RewardDiv == 5
PeakDiv == 50

\* a penalty whose test is x > 0.001 or x < -0.001
PenalStrict(actions) ==
    SumSeq([i \in DOMAIN actions |->
        IF actions[i] > NearZero \/ actions[i] < -NearZero
        THEN PenalActive ELSE PenalInactive])

\* penal = sum([1 if not 0.001 > x > -0.001 else -10 for x in actions])
Penal(actions) ==
    SumSeq([i \in DOMAIN actions |->
        IF ~(NearZero > actions[i] /\ actions[i] > -NearZero)
        THEN PenalActive ELSE PenalInactive])

\* actions.mean() > 0.1, and actions.mean() < 0, without the division
MeanAbove01(actions) == 10 * SumSeq(actions) > ActUnit * Len(actions)

MeanNegative(actions) == SumSeq(actions) < 0

MeanPositive(actions) == SumSeq(actions) > 0

\* a night term whose first range of hours includes hour 12
NightChargingBoostThroughNoon(hour, actions) ==
    IF ((1 <= hour /\ hour <= 12) \/ (22 <= hour /\ hour <= 24)) /\ MeanAbove01(actions)
    THEN 1
    ELSE IF ((1 <= hour /\ hour < 8) \/ (22 <= hour /\ hour <= 24)) /\ MeanNegative(actions)
    THEN -1
    ELSE 0

\* lines 313-318
NightChargingBoost(hour, actions) ==
    IF ((1 <= hour /\ hour < 12) \/ (22 <= hour /\ hour <= 24)) /\ MeanAbove01(actions)
    THEN 1
    ELSE IF ((1 <= hour /\ hour < 8) \/ (22 <= hour /\ hour <= 24)) /\ MeanNegative(actions)
    THEN -1
    ELSE 0

\* lines 321-324
DayChargingPen(hour, actions) ==
    IF (12 <= hour /\ hour < 20) /\ MeanPositive(actions) THEN -1 ELSE 0

\* hr_index = int(states[2]) - 1; states[2] is the third observation
HrIndex(states) == states[3] - 1

\* lines 342-348: the new day_list
DayListNext(dl, hr_index, net) ==
    IF hr_index = 0
    THEN [InitialDayList EXCEPT ![hr_index + 1] = net]
    ELSE [dl EXCEPT ![hr_index + 1] = net]

\* lines 342-348: max_peak; at hr_index 0 it is read before the reset
DayListMaxPeak(dl, hr_index, net) ==
    IF hr_index = 0
    THEN MaxSeq(dl)
    ELSE MaxSeq([dl EXCEPT ![hr_index + 1] = net])

\* the four weighted terms of line 385, in units of 1/RewUnit:
\* rewards * sw5, penal * sw4, max_peak/50 * sw6, hr_pen * sw7
RewardTerm(rewards) ==
    Clip(rewards \div RewardDiv, -RewUnit, RewUnit) * Sw5

PenalTerm(actions) == (Penal(actions) * RewUnit * Sw4Num) \div Sw4Den

PeakTerm(peak) == (((peak * RewUnit) \div PeakDiv) * Sw6Num) \div Sw6Den

HourTerm(hour, actions) ==
    (NightChargingBoost(hour, actions) + DayChargingPen(hour, actions)) * RewUnit * Sw7

\* the sum without the daily-peak term
TotalRewardsNoPeak(states, actions, rewards, peak) ==
    PenalTerm(actions) + RewardTerm(rewards) + HourTerm(states[3], actions)

\* line 354
TotalRewards(states, actions, rewards, peak) ==
    PenalTerm(actions) + RewardTerm(rewards) + PeakTerm(peak)
        + HourTerm(states[3], actions)

\* a memory that keeps its length, dropping its oldest entry
AutoRegressivePushBounded(buf, previous_consumption) ==
    Tail(Append(buf, previous_consumption))

\* AutoRegressiveMemory.push: self.buffer.append(previous_consumption)
AutoRegressivePush(buf, previous_consumption) == Append(buf, previous_consumption)

\* the environment's step before the call: it appends the step's net
\* consumption to env.net_electric_consumption
EnvStep(net) == net_electric_consumption' = Append(net_electric_consumption, net)

\* add_to_buffer(states, actions, rewards, next_states, dones), after an
\* environment step that made net the value of
\* self.env.net_electric_consumption[-1]
AddToBuffer(states, actions, rewards, next_states, dones, net) ==
    LET peak == DayListMaxPeak(day_list, HrIndex(states), net)
        total == TotalRewards(states, actions, rewards, peak)
    IN  /\ day_list' = DayListNext(day_list, HrIndex(states), net)
        /\ max_peak' = peak
        /\ Push(Transition(states, actions, total, next_states, dones))
        /\ autoregressive_action_memory' =
               AutoRegressivePush(autoregressive_action_memory, actions)
        /\ reward_tracker' = Append(reward_tracker, total)
        /\ ret' = <<total, RewardTerm(rewards), PenalTerm(actions), PeakTerm(peak),
                    HourTerm(states[3], actions)>>
        /\ raised' = "none"
        /\ EnvStep(net)
        /\ lastOp' = "add_to_buffer" /\ arg' = rewards
        /\ UNCHANGED <<capacity, batch, netVars, cfgVars, next_q_value, nUpdates,
                       otherVars>>

----------------------------------------------------------------------------
(* SAC.update_parameters (agent_SAC.py:389-441) *)

\* mask_batch = FloatTensor(done): the stored done flag as a number
MaskOf(done) == IF done THEN 1 ELSE 0

\* the values min(Q1_target, Q2_target) - alpha * log_pi can take for a
\* sample, in units of 1/RewUnit (the networks' arithmetic is not modelled)
QValues == {-RewUnit, 2 * RewUnit}

\* line 403: next_q_value = reward_batch + mask_batch * gamma * min_qf_next_target
NextQValue(reward, mask, q) == reward + (mask * GammaNum * q) \div GammaDen

\* an update that returns without a word when the buffer is too short
UpdateParametersSkip ==
    /\ raised' = "none"
    /\ UNCHANGED <<memVars, batch, learnerVars, otherVars>>

\* line 391 with fewer than batch_size transitions stored: memory.sample
\* raises and nothing else has run
UpdateParametersError ==
    /\ raised' = "ValueError"
    /\ UNCHANGED <<memVars, batch, learnerVars, otherVars>>

\* a schedule that updates the target on every call
TargetUpdateAlways(updates, interval) == TRUE

\* line 438: updates % self.target_update_interval == 0
TargetUpdateDue(updates, interval) == updates % interval = 0

\* the alpha values a step of alpha_optim may give
AlphaSteps == {InitialAlpha, InitialAlpha \div 2}

\* update_parameters(updates) with enough transitions stored
UpdateParametersOk(updates) ==
    \E idx \in SampleDraws(buffer, batch_size),
       q \in [1..batch_size -> QValues],
       newCritic \in ParamVectors, newPolicy \in {policy, FreshPolicy} :
        /\ batch' = Stack(buffer, idx)
        /\ next_q_value' =
              [i \in 1..batch_size |->
                  NextQValue(buffer[idx[i]][3], MaskOf(buffer[idx[i]][5]), q[i])]
        \* critic_optim.step(), policy_optim.step()
        /\ critic' = newCritic
        /\ policy' = newPolicy
        /\ IF automatic_entropy_tuning
           THEN alpha' \in AlphaSteps
           ELSE alpha' = alpha
        /\ critic_target' =
              IF TargetUpdateDue(updates, target_update_interval)
              THEN SoftUpdate(critic_target, newCritic, TauNum, TauDen)
              ELSE critic_target
        /\ nUpdates' = nUpdates + 1
        /\ raised' = "none"
        /\ UNCHANGED <<memVars, cfgVars, shapeVars, envVars, ret, max_peak, otherVars>>

UpdateParameters(updates) ==
    /\ lastOp' = "update_parameters"
    /\ arg' = updates
    /\ IF SampleFails(buffer, batch_size)
       THEN UpdateParametersError
       ELSE UpdateParametersOk(updates)

----------------------------------------------------------------------------
(* The learner: construction, then add_to_buffer and update_parameters *)

LearnerInit ==
    /\ \E interval \in 1..MaxInterval, ct \in BOOLEAN,
          saved_actor \in {FreshPolicy}, saved_critic \in ParamVectors :
          SACInit(ReplaySize, BatchSize, interval, ct, saved_actor, saved_critic)
    /\ NoCall
    /\ NoSelect
    /\ pushed = <<>>
    /\ NoPolicy
    /\ NoCharger

\* the calls the learner is driven with: an hour, a one-component action,
\* a raw reward, the done flag
LearnerInputs ==
    { <<<<0, 0, 1>>, <<ActUnit \div 2>>, 2 * RewUnit, FALSE>>,
      <<<<0, 0, 13>>, <<0>>, -10 * RewUnit, TRUE>> }

\* the `updates` argument: the caller's count of updates, a multiple of
\* every interval (0) or of the interval 1 alone (1)
UpdateCounts == {0, 1}

DoAddToBuffer ==
    /\ Len(pushed) < MaxCalls
    /\ \E in \in LearnerInputs, net \in {3} :
          AddToBuffer(in[1], in[2], in[3], in[1], in[4], net)

DoUpdateParameters ==
    /\ nUpdates < MaxUpdates
    /\ \E updates \in UpdateCounts : UpdateParameters(updates)

LearnerNext == DoAddToBuffer \/ DoUpdateParameters

SpecLearner == LearnerInit /\ [][LearnerNext]_vars

\* C4: update_parameters with fewer than batch_size transitions stored ends
\* in an error, and the critic, the policy, the target critic, alpha and the
\* replay buffer are as they were before the call.
C4_ShortBufferRaises ==
    [][(lastOp' = "update_parameters" /\ Len(buffer) < batch_size) =>
          /\ raised' = "ValueError"
          /\ UNCHANGED <<critic, policy, critic_target, alpha, buffer, position>>]_vars

\* an update was refused on a buffer that holds transitions, but too few
C4_Witness ==
    /\ lastOp = "update_parameters"
    /\ raised = "ValueError"
    /\ Len(buffer) >= 1
    /\ Len(buffer) < batch_size

\* C5: right after the constructor returns, whatever the configuration,
\* every target-critic parameter equals the corresponding critic parameter.
C5_TargetEqualsCritic ==
    lastOp = "init" =>
        /\ Len(critic_target) = Len(critic)
        /\ \A i \in DOMAIN critic : critic_target[i] = critic[i]

----------------------------------------------------------------------------
(* Reward shaping: add_to_buffer on a fresh learner, with action vectors on
   both sides of the 0.001 threshold *)

Abs(x) == IF x < 0 THEN -x ELSE x

ShapeInit ==
    /\ SACInit(ReplaySize, BatchSize, 1, FALSE, FreshPolicy, FreshCritic)
    /\ NoCall
    /\ NoSelect
    /\ pushed = <<>>
    /\ NoPolicy
    /\ NoCharger

\* action vectors: all zero, all at or over 0.001 in magnitude (0.001 itself,
\* -0.001, 0.2), under it (0.0005), and mixed
ShapeActions ==
    { <<0>>, <<0, 0>>, <<0, 0, 0>>,
      <<NearZero>>, <<NearZero, -NearZero>>, <<ActUnit \div 5, -NearZero, NearZero>>,
      <<NearZero \div 2>>, <<-(NearZero \div 2), NearZero \div 2>>,
      <<0, ActUnit \div 5>>, <<-(ActUnit \div 5), NearZero \div 2, NearZero>> }

ShapeHours == {1, 7, 12, 22}

\* raw rewards -10.0 and 2.5
ShapeRewards == {-10 * RewUnit, (5 * RewUnit) \div 2}

ShapeNets == {-2, 7}

DoShape ==
    /\ Len(pushed) < MaxShapeCalls
    /\ \E h \in ShapeHours, a \in ShapeActions, r \in ShapeRewards, net \in ShapeNets,
          d \in BOOLEAN :
          AddToBuffer(<<0, 0, h>>, a, r, <<0, 0, (h % HoursPerDay) + 1>>, d, net)

ShapeNext == DoShape

SpecReward == ShapeInit /\ [][ShapeNext]_vars

\* the action vector of the last add_to_buffer call
LastActions == pushed[Len(pushed)][2]

\* C8: the inactivity penalty is the sum over the action components of -10
\* where |a| < 0.001 and +1 elsewhere; the returned weighted component is
\* half of it: -10 * n * 0.5 for n components all zero, and +1 * n * 0.5 for
\* n components all of magnitude >= 0.001 (0.001 itself included).
C8_InactivityPenalty ==
    lastOp = "add_to_buffer" =>
        LET a == LastActions
            n == Len(a)
            inactive == Cardinality({i \in 1..n : Abs(a[i]) < NearZero})
        IN  /\ 2 * ret[3] = RewUnit * ((n - inactive) - 10 * inactive)
            /\ (\A i \in 1..n : a[i] = 0) => 2 * ret[3] = RewUnit * (-10 * n)
            /\ (\A i \in 1..n : Abs(a[i]) >= NearZero) => 2 * ret[3] = RewUnit * n

\* a call whose action components are all at the threshold itself, of both
\* signs
C8_Witness ==
    /\ lastOp = "add_to_buffer"
    /\ Len(LastActions) >= 2
    /\ \A i \in DOMAIN LastActions : Abs(LastActions[i]) = NearZero
    /\ \E i \in DOMAIN LastActions : LastActions[i] < 0

----------------------------------------------------------------------------
(* Daily-peak tracking: add_to_buffer fed the hours 1, 2, ..., 24, 1, ... *)

\* the hour of the k-th call, k = 1, 2, ...
HourOfCall(k) == ((k - 1) % HoursPerDay) + 1

\* the net consumption of most steps, and the values a step may depart to
BaseNet == 5

PeakNets == {-3, 10, 20}

PeakInit == ShapeInit

DoFeedHour ==
    /\ Len(net_electric_consumption) < MaxDayCalls
    /\ LET h == HourOfCall(Len(net_electric_consumption) + 1)
           departed == {i \in DOMAIN net_electric_consumption :
                           net_electric_consumption[i] # BaseNet}
       IN  \E net \in {BaseNet} \cup
                      (IF Cardinality(departed) < MaxPeaks THEN PeakNets ELSE {}) :
              AddToBuffer(<<0, 0, h>>, <<ActUnit \div 5>>, 0,
                          <<0, 0, HourOfCall(Len(net_electric_consumption) + 2)>>,
                          FALSE, net)

PeakNext == DoFeedHour

SpecPeak == PeakInit /\ [][PeakNext]_vars

\* the net-consumption values fed since, and including, the most recent call
\* at hour 1
SinceHourOne ==
    LET k == Len(net_electric_consumption)
    IN  SubSeq(net_electric_consumption, k - (HourOfCall(k) - 1), k)

\* C9: in every call the max_peak used for the shaped reward is the running
\* maximum of the net-consumption values seen since, and including, the most
\* recent call at hour 1, and the tracked day is reset exactly at the call
\* at hour 1.
C9_RunningDailyPeak ==
    lastOp = "add_to_buffer" =>
        /\ max_peak = MaxSeq(SinceHourOne)
        /\ \A h \in 1..HoursPerDay :
              day_list[h] = IF h <= Len(SinceHourOne) THEN SinceHourOne[h] ELSE 0

----------------------------------------------------------------------------
(* soft_update and hard_update on their own: a target and a source drawn
   from the parameter values, then updates with several tau *)

PolyakValues == {-ParamUnit, 0, ParamUnit}

PolyakVectors == [1..2 -> PolyakValues]

\* tau as <<numerator, denominator>>: 0.003 and 1/2
PolyakTaus == { <<TauNum, TauDen>>, <<1, 2>> }

PolyakInit ==
    /\ critic \in PolyakVectors
    /\ critic_target \in PolyakVectors
    /\ NoShaping
    /\ NoMemory
    /\ NoCall
    /\ NoSelect
    /\ NoPolicy
    /\ NoCharger

DoSoftUpdate ==
    /\ nUpdates < MaxUpdates
    /\ \E tau \in PolyakTaus :
          /\ critic_target' = SoftUpdate(critic_target, critic, tau[1], tau[2])
          /\ arg' = tau
    /\ nUpdates' = nUpdates + 1
    /\ lastOp' = "soft_update"
    /\ UNCHANGED <<memVars, batch, raised, critic, policy, alpha, cfgVars, shapeVars,
                   envVars, ret, max_peak, next_q_value, otherVars>>

DoHardUpdate ==
    /\ critic_target' = HardUpdate(critic_target, critic)
    /\ lastOp' = "hard_update"
    /\ UNCHANGED <<memVars, batch, raised, arg, critic, policy, alpha, cfgVars,
                   shapeVars, envVars, obsVars, otherVars>>

PolyakNext == DoSoftUpdate \/ DoHardUpdate

SpecPolyak == PolyakInit /\ [][PolyakNext]_vars

\* C6: soft_update moves every target parameter by tau * (source - old
\* target), which is (1 - tau) * old target + tau * source, and changes no
\* source parameter; hard_update makes every target parameter equal to its
\* source parameter.
C6_PolyakStep ==
    [][/\ lastOp' = "soft_update" =>
            /\ critic' = critic
            /\ DOMAIN critic_target' = DOMAIN critic_target
            /\ \A i \in DOMAIN critic_target :
                  /\ (critic_target'[i] - critic_target[i]) * arg'[2]
                        = arg'[1] * (critic[i] - critic_target[i])
                  /\ critic_target'[i] * arg'[2]
                        = (arg'[2] - arg'[1]) * critic_target[i] + arg'[1] * critic[i]
       /\ lastOp' = "hard_update" =>
            /\ critic' = critic
            /\ critic_target' = critic]_vars

\* a soft update with tau = 0.003 has moved a target that differed from its
\* source
C6_Witness ==
    /\ lastOp = "soft_update"
    /\ arg = <<TauNum, TauDen>>
    /\ \E i \in DOMAIN critic_target :
          /\ critic_target[i] # critic[i]
          /\ critic_target[i] % ParamUnit # 0

----------------------------------------------------------------------------
(* GaussianPolicy and DeterministicPolicy (agent_SAC.py:516-605)

   Units.  A network output (a mean, a sample x_t) is an integer number of
   halves; tanh gives thousandths (TanhUnit); the bounds low and high of the
   action space are quarters (SpaceUnit); action_scale = (high - low) / 2 and
   action_bias = (high + low) / 2 are eighths; an action is an integer
   number of 1/PolUnit, PolUnit = 2 * SpaceUnit * TanhUnit.               *)

TanhUnit == 10 * 100
SpaceUnit == 2 * 2
PolUnit == 2 * SpaceUnit * TanhUnit

\* LOG_SIG_MAX, LOG_SIG_MIN (lines 35-36)
LOG_SIG_MAX == 2
LOG_SIG_MIN == -20

\* torch.tanh on halves, in thousandths, rounded to the nearest; it
\* saturates at 1.0 as the float does
TanhPos(x) ==
    CASE x = 0 -> 0
      [] x = 1 -> 462
      [] x = 2 -> 762
      [] x = 3 -> 905
      [] x = 4 -> 964
      [] x = 5 -> 987
      [] x = 6 -> 995
      [] x = 7 -> 998
      [] x = 8 -> 999
      [] OTHER -> TanhUnit

Tanh(x) == IF x >= 0 THEN TanhPos(x) ELSE -TanhPos(-x)

\* exp of a whole log_std within [LOG_SIG_MIN, LOG_SIG_MAX], in halves,
\* rounded to the nearest
Exp(ls) ==
    CASE ls = 2 -> 15
      [] ls = 1 -> 5
      [] ls = 0 -> 2
      [] ls = -1 -> 1
      [] OTHER -> 0

\* the action spaces explored: <<low, high>>, one bound per component
ActionSpaces ==
    { << <<-4, -4>>, <<4, 4>> >>,
      << <<0, -1>>, <<2, 3>> >> }

\* (action_space.high - action_space.low) / 2. and
\* (action_space.high + action_space.low) / 2. (lines 533-536, 583-586)
ActionScale(low, high) == [i \in DOMAIN low |-> high[i] - low[i]]

ActionBias(low, high) == [i \in DOMAIN low |-> high[i] + low[i]]

\* the bounds back from scale and bias: low = bias - scale, high = bias + scale
SpaceLow(i) == (action_bias[i] - action_scale[i]) \div 2

SpaceHigh(i) == (action_bias[i] + action_scale[i]) \div 2

\* GaussianPolicy.forward's clamp of log_std (line 543)
ClampLogStd(ls) == Clip(ls, LOG_SIG_MIN, LOG_SIG_MAX)

\* tanh(x) * self.action_scale + self.action_bias for component i
Squash(x, i) == Tanh(x) * action_scale[i] + action_bias[i] * TanhUnit

\* GaussianPolicy.sample, given what forward returned (mean, log_std before
\* the clamp) and the standard normal draw eps of rsample, per component:
\* x_t = mean + std * eps, action = tanh(x_t) * scale + bias,
\* mean = tanh(mean) * scale + bias.   log_prob is not modelled.
GaussianSample(mean, log_std, eps) ==
    LET std == [i \in DOMAIN mean |-> Exp(ClampLogStd(log_std[i]))]
        \* std is in halves and eps a whole number: x_t is in halves
        x_t == [i \in DOMAIN mean |-> mean[i] + std[i] * eps[i]]
    IN  /\ pi_action' = [i \in DOMAIN mean |-> Squash(x_t[i], i)]
        /\ pi_mean' = [i \in DOMAIN mean |-> Squash(mean[i], i)]

\* 0.25, the clamp of the exploration noise (line 597)
NoiseClamp == PolUnit \div 4

\* DeterministicPolicy.sample, given the network output and the draw of
\* self.noise.normal_(0., std=0.1): mean = tanh(.) * scale + bias,
\* action = mean + noise.clamp(-0.25, 0.25)
DeterministicSample(out, noise) ==
    LET mean == [i \in DOMAIN out |-> Squash(out[i], i)]
    IN  /\ pi_action' = [i \in DOMAIN out |->
                            mean[i] + Clip(noise[i], -NoiseClamp, NoiseClamp)]
        /\ pi_mean' = mean

\* the network outputs, log_std values and draws explored, per component
NetOutputs == {-9, -1, 0, 3, 20}

LogStds == {-25, 0, 5}

NormalDraws == {-2, 0, 1}

\* draws of the exploration noise: -0.5, -0.1, 0, 0.1, 0.5
NoiseDraws == {-(PolUnit \div 2), -(PolUnit \div 10), 0, PolUnit \div 10, PolUnit \div 2}

PolicyInit ==
    /\ policy_type \in {"Gaussian", "Deterministic"}
    /\ \E sp \in ActionSpaces :
          /\ action_scale = ActionScale(sp[1], sp[2])
          /\ action_bias = ActionBias(sp[1], sp[2])
    /\ pi_action = <<>>
    /\ pi_mean = <<>>
    /\ NoLearner
    /\ NoMemory
    /\ NoCall
    /\ NoSelect
    /\ NoCharger

DoGaussianSample ==
    /\ policy_type = "Gaussian"
    /\ \E mean \in [DOMAIN action_scale -> NetOutputs], ls \in LogStds,
          eps \in [DOMAIN action_scale -> NormalDraws] :
          GaussianSample(mean, [i \in DOMAIN action_scale |-> ls], eps)
    /\ lastOp' = "GaussianPolicy.sample"
    /\ UNCHANGED <<memVars, batch, raised, arg, learnerVars, policy_type,
                   action_scale, action_bias, chargerVars, selectVars>>

DoDeterministicSample ==
    /\ policy_type = "Deterministic"
    /\ \E out \in [DOMAIN action_scale -> NetOutputs],
          noise \in [DOMAIN action_scale -> NoiseDraws] :
          DeterministicSample(out, noise)
    /\ lastOp' = "DeterministicPolicy.sample"
    /\ UNCHANGED <<memVars, batch, raised, arg, learnerVars, policy_type,
                   action_scale, action_bias, chargerVars, selectVars>>

PolicyNext == DoGaussianSample \/ DoDeterministicSample

SpecPolicy == PolicyInit /\ [][PolicyNext]_vars

\* every component of the action a lies within [low, high]
WithinSpace(a) ==
    \A i \in DOMAIN a :
        /\ SpaceLow(i) * 2 * TanhUnit <= a[i]
        /\ a[i] <= SpaceHigh(i) * 2 * TanhUnit

\* C7: whatever the (finite) input, the action and the evaluation-mode mean
\* that a policy's sample returns lie within [low, high] of the action
\* space, component by component, for the Gaussian and for the
\* deterministic policy.
C7_ActionWithinSpace ==
    lastOp \in {"GaussianPolicy.sample", "DeterministicPolicy.sample"} =>
        /\ WithinSpace(pi_action)
        /\ WithinSpace(pi_mean)

----------------------------------------------------------------------------
(* Charger and electric vehicle. Energies are in units of 1/KwhUnit kWh,
   charger action values in units of 1/ActUnit, efficiencies, required
   departure SoC and SoC variations in units of 1/EffUnit, percentages in
   units of 1/PctUnit percent. *)

KwhUnit == 10 * 10

EffUnit == 10 * 10

PctUnit == 10 * 10

(* citylearn.energy_model.Battery, as the specification describes it: a
   capacity, an SoC series bounded by [0, capacity], a consumption series;
   charge(energy) clips to the physical bounds and records the consumption *)

BatteryInit(cap, soc0) ==
    [capacity |-> cap, initial_soc |-> soc0, soc |-> <<soc0>>,
     electricity_consumption |-> <<0>>]

BatteryCharge(b, e) ==
    LET n == Len(b.soc)
        new == Clip(b.soc[n] + e, 0, b.capacity)
    IN  [b EXCEPT !.soc[n] = new, !.electricity_consumption[n] = new - b.soc[n]]

\* a direct change of the SoC that does not keep it within the bounds
BatterySetAdHocChargeUnbounded(b, e) ==
    [b EXCEPT !.soc[Len(b.soc)] = b.soc[Len(b.soc)] + e]

\* a direct change of the SoC, not metered
BatterySetAdHocCharge(b, e) ==
    [b EXCEPT !.soc[Len(b.soc)] = Clip(b.soc[Len(b.soc)] + e, 0, b.capacity)]

BatteryNextTimeStep(b) ==
    [b EXCEPT !.soc = Append(b.soc, b.soc[Len(b.soc)]),
              !.electricity_consumption = Append(b.electricity_consumption, 0)]

(* Charger *)

\* the efficiency setter, for None (is_none) or a positive value e
SetEfficiency(is_none, e) == IF is_none THEN EffUnit ELSE e

\* a setter that accepts an efficiency of 0
EfficiencyAcceptedNonNegative(is_none, e) == is_none \/ e >= 0

\* the setter's precondition: None, or assert efficiency > 0
EfficiencyAccepted(is_none, e) == is_none \/ e > 0

\* self.efficiency = e (is_none: None) after construction
EfficiencySetter(is_none, e) ==
    IF EfficiencyAccepted(is_none, e)
    THEN efficiency' = SetEfficiency(is_none, e) /\ raised' = "none"
    ELSE raised' = "AssertionError" /\ UNCHANGED efficiency

\* update_electricity_consumption(value)
UpdateElectricityConsumption(value) ==
    IF value >= 0
    THEN /\ electricity_consumption' =
                [electricity_consumption EXCEPT ![time_step + 1] = @ + value]
         /\ raised' = "none"
    ELSE raised' = "AssertionError" /\ UNCHANGED electricity_consumption

\* Charger(...) with the default powers, followed by reset()
ChargerInit(eff, max_charging, max_discharging) ==
    /\ efficiency = SetEfficiency(eff[1], eff[2])
    /\ max_charging_power = max_charging
    /\ max_discharging_power = max_discharging
    /\ time_step = 0
    /\ connected_ev = "None"
    /\ incoming_ev = "None"
    /\ electricity_consumption = <<0>>
    /\ electricity_consumption_without_partial_load = <<0>>
    /\ past_connected_evs = <<"None">>
    /\ past_charging_action_values = <<0>>

DefaultMaxChargingPower == 50 * KwhUnit

DefaultMaxDischargingPower == 50 * KwhUnit

\* a plug_car that records the car in the first entry of the history
PlugCarAtStart(car) ==
    /\ past_connected_evs' = [past_connected_evs EXCEPT ![1] = car]
    /\ connected_ev' = car

\* a plug_car that connects the car without recording it
PlugCarUnrecorded(car) ==
    /\ connected_ev' = car
    /\ UNCHANGED past_connected_evs

\* plug_car(car)
PlugCar(car) ==
    /\ past_connected_evs' = [past_connected_evs EXCEPT ![time_step + 1] = car]
    /\ connected_ev' = car

UnplugCar == connected_ev' = "None"

AssociateIncomingCar(car) == incoming_ev' = car

DisassociateIncomingCar == incoming_ev' = "None"

\* action_value * max_charging_power, or * max_discharging_power
RequestedEnergy(action_value) ==
    IF action_value > 0
    THEN (action_value * max_charging_power) \div ActUnit
    ELSE (action_value * max_discharging_power) \div ActUnit

\* a charger that passes the requested energy on unclamped
ChargeClampNone(e, b, t) == e

\* min(energy, capacity - soc[time_step])
ChargeClamp(e, b, t) == Min(e, b.capacity - b.soc[t + 1])

\* a charger that passes the requested discharge on unclamped
DischargeClampNone(e, b, t) == e

\* max(energy, -(soc[time_step] - 0.10 * capacity))
DischargeClamp(e, b, t) == Max(e, -(b.soc[t + 1] - b.capacity \div 10))

\* energy * self.efficiency
ApplyEfficiency(e) == (e * efficiency) \div EffUnit

\* the charge of the auxiliary battery: towards the SoC required at
\* departure, at most max_charging_power
AuxEnergy(aux, required, t) ==
    Min(max_charging_power, (aux.capacity * required) \div EffUnit - aux.soc[t + 1])

\* a test that takes the charging branch for an action of 0 too
ChargeAppliesAnyAction(ev, action_value) == ev # "None"

\* if self.connected_ev and action_value != 0
ChargeApplies(ev, action_value) == ev # "None" /\ action_value # 0

\* what the charging branch of update_connected_ev_soc computes for the
\* batteries b and aux of the connected EV at time step t
ChargeOutcome(b, aux, action_value, required, t) ==
    LET requested == RequestedEnergy(action_value)
        clamped == IF requested >= 0
                   THEN ChargeClamp(requested, b, t)
                   ELSE DischargeClamp(requested, b, t)
        charged == BatteryCharge(b, ApplyEfficiency(clamped))
        aux_charged == BatteryCharge(aux, AuxEnergy(aux, required, t))
    IN  [energy |-> clamped,
         energy_kwh |-> ApplyEfficiency(clamped),
         energy_aux |-> AuxEnergy(aux, required, t),
         battery |-> charged,
         aux_battery |-> aux_charged,
         electricity_consumption |->
             charged.electricity_consumption[Len(charged.electricity_consumption)],
         electricity_consumption_without_partial_load |->
             aux_charged.electricity_consumption[Len(aux_charged.electricity_consumption)]]

\* update_connected_ev_soc(action_value), with required the value of
\* ev_simulation.ev_required_soc_departure[time_step]
UpdateConnectedEvSoc(action_value, required) ==
    /\ past_charging_action_values' =
           [past_charging_action_values EXCEPT ![time_step + 1] = action_value]
    /\ IF ChargeApplies(connected_ev, action_value)
       THEN LET out == ChargeOutcome(battery, aux_battery, action_value, required,
                                     time_step)
            IN  /\ energy' = out.energy
                /\ energy_kwh' = out.energy_kwh
                /\ battery' = out.battery
                /\ electricity_consumption' =
                       [electricity_consumption EXCEPT ![time_step + 1] =
                           out.electricity_consumption]
                /\ aux_battery' = out.aux_battery
                /\ electricity_consumption_without_partial_load' =
                       [electricity_consumption_without_partial_load EXCEPT ![time_step + 1] =
                           out.electricity_consumption_without_partial_load]
       ELSE /\ electricity_consumption' =
                   [electricity_consumption EXCEPT ![time_step + 1] = 0]
            /\ electricity_consumption_without_partial_load' =
                   [electricity_consumption_without_partial_load EXCEPT ![time_step + 1] = 0]
            /\ UNCHANGED <<battery, aux_battery, energy, energy_kwh>>

\* a next_time_step that leaves the connected and the incoming EV in place
ChargerNextTimeStepKeepsEvs ==
    /\ electricity_consumption' = Append(electricity_consumption, 0)
    /\ electricity_consumption_without_partial_load' =
           Append(electricity_consumption_without_partial_load, 0)
    /\ past_connected_evs' = Append(past_connected_evs, "None")
    /\ past_charging_action_values' = Append(past_charging_action_values, 0)
    /\ UNCHANGED <<connected_ev, incoming_ev>>
    /\ time_step' = time_step + 1

\* a reset that keeps the series and clears only the two references
ChargerResetKeepsSeries ==
    /\ time_step' = 0
    /\ connected_ev' = "None"
    /\ incoming_ev' = "None"
    /\ UNCHANGED seriesVars

\* Charger.reset()
ChargerReset ==
    /\ time_step' = 0
    /\ connected_ev' = "None"
    /\ incoming_ev' = "None"
    /\ electricity_consumption' = <<0>>
    /\ electricity_consumption_without_partial_load' = <<0>>
    /\ past_connected_evs' = <<"None">>
    /\ past_charging_action_values' = <<0>>

\* Charger.next_time_step()
ChargerNextTimeStep ==
    /\ electricity_consumption' = Append(electricity_consumption, 0)
    /\ electricity_consumption_without_partial_load' =
           Append(electricity_consumption_without_partial_load, 0)
    /\ past_connected_evs' = Append(past_connected_evs, "None")
    /\ past_charging_action_values' = Append(past_charging_action_values, 0)
    /\ connected_ev' = "None"
    /\ incoming_ev' = "None"
    /\ time_step' = time_step + 1

(* electric_vehicle *)

\* np.clip(draw, -0.2, 0.2)
VariationClip == EffUnit \div 5

VariationUnclipped(draw) == draw

VariationPercentage(draw) == Clip(draw, -VariationClip, VariationClip)

\* the SoC in kWh that a percentage of the capacity is
SystemConnectionKwh(b, soc_system_connection) ==
    (b.capacity * soc_system_connection) \div (100 * PctUnit)

\* the final SoC in kWh: the target plus the variation
SocFinalKwh(b, soc_system_connection, draw) ==
    LET target == SystemConnectionKwh(b, soc_system_connection)
    IN  target + (VariationPercentage(draw) * target) \div EffUnit

\* what is passed to set_ad_hoc_charge: the final SoC minus initial_soc
AdHocDelta(b, soc_system_connection, draw) ==
    SocFinalKwh(b, soc_system_connection, draw) - b.initial_soc

\* an adjustment that passes the auxiliary battery's difference to both
\* batteries
AdjustedBatteriesByAux(b, aux, soc_system_connection, draw) ==
    <<BatterySetAdHocCharge(b, AdHocDelta(aux, soc_system_connection, draw)),
      BatterySetAdHocCharge(aux, AdHocDelta(aux, soc_system_connection, draw))>>

\* battery.set_ad_hoc_charge(soc_final_kwh - soc_init_kwh) and
\* aux_battery.set_ad_hoc_charge(aux_soc_final_kwh - aux_soc_init_kwh)
AdjustedBatteries(b, aux, soc_system_connection, draw) ==
    <<BatterySetAdHocCharge(b, AdHocDelta(b, soc_system_connection, draw)),
      BatterySetAdHocCharge(aux, AdHocDelta(aux, soc_system_connection, draw))>>

\* adjust_ev_soc_on_system_connection(soc_system_connection) on the
\* batteries b and aux, with draw the value of np.random.normal(0, 0.1)
AdjustEvSocOnSystemConnection(b, aux, soc_system_connection, draw) ==
    /\ battery' = AdjustedBatteries(b, aux, soc_system_connection, draw)[1]
    /\ aux_battery' = AdjustedBatteries(b, aux, soc_system_connection, draw)[2]
    /\ ad_hoc' = <<AdHocDelta(b, soc_system_connection, draw),
                   AdHocDelta(aux, soc_system_connection, draw)>>
    /\ adjusted' =
           <<[soc_system_connection |-> soc_system_connection,
              variation_percentage |-> VariationPercentage(draw),
              soc_system_connection_kwh |-> SystemConnectionKwh(b, soc_system_connection),
              aux_soc_system_connection_kwh |->
                  SystemConnectionKwh(aux, soc_system_connection),
              soc_final_kwh |-> SocFinalKwh(b, soc_system_connection, draw),
              aux_soc_final_kwh |-> SocFinalKwh(aux, soc_system_connection, draw)]>>

\* (battery.soc[-1] / battery.capacity) * 100
SocPercent(b) == (b.soc[Len(b.soc)] * 100 * PctUnit) \div b.capacity

\* electric_vehicle.next_time_step(), with charger_state and estimated the
\* values of ev_simulation.ev_charger_state and ev_estimated_soc_arrival at
\* the new time step
EVNextTimeStep(charger_state, estimated, draw) ==
    LET b == BatteryNextTimeStep(battery)
        aux == BatteryNextTimeStep(aux_battery)
    IN  /\ ev_time_step' = ev_time_step + 1
        /\ IF charger_state = 2
           THEN AdjustEvSocOnSystemConnection(b, aux, estimated * PctUnit, draw)
           ELSE IF charger_state = 3
           THEN AdjustEvSocOnSystemConnection(b, aux, SocPercent(b), draw)
           ELSE battery' = b /\ aux_battery' = aux /\ UNCHANGED ad_hoc /\ adjusted' = <<>>

(* The charger serving one vehicle, driven by the environment loop *)

\* capacity and initial SoC of the vehicle's battery: 50 kWh holding 48 and
\* 6 kWh
EvBatteries == {<<50 * KwhUnit, 48 * KwhUnit>>, <<50 * KwhUnit, 6 * KwhUnit>>}

\* the auxiliary battery: 40 kWh, at the same fraction of its capacity
AuxCapacity == 40 * KwhUnit

\* the efficiency argument: None, or 0.9
Efficiencies == {<<TRUE, 0>>, <<FALSE, (9 * EffUnit) \div 10>>}

\* action values -1, -0.2, 0, 0.2, 1
ChargerActions == {-ActUnit, -(ActUnit \div 5), 0, ActUnit \div 5, ActUnit}

\* required SoC at departure: 0.8
RequiredSocs == {(4 * EffUnit) \div 5}

ChargerStates == {1, 2, 3}

\* estimated SoC at arrival, in percent
EstimatedSocs == {20}

\* draws of the variation: -0.35, 0.1
VariationDraws == {-((7 * EffUnit) \div 20), EffUnit \div 10}

ChargerSpecInit ==
    /\ \E eff \in Efficiencies :
          ChargerInit(eff, DefaultMaxChargingPower, DefaultMaxDischargingPower)
    /\ \E bt \in EvBatteries :
          /\ battery = BatteryInit(bt[1], bt[2])
          /\ aux_battery = BatteryInit(AuxCapacity, (bt[2] * AuxCapacity) \div bt[1])
    /\ ev_time_step = 0 /\ ev_simulation = <<>>
    /\ energy = 0 /\ energy_kwh = 0 /\ ad_hoc = <<>> /\ adjusted = <<>> /\ nCharges = 0 /\ twin = <<>>
    /\ NoCall
    /\ NoSelect
    /\ NoMemory
    /\ NoLearner
    /\ NoPolicy

chargerFrame ==
    <<memVars, batch, learnerVars, policyVars, selectVars, ratingVars, ev_simulation>>

DoPlugCar ==
    /\ PlugCar("ev")
    /\ lastOp' = "plug_car" /\ raised' = "none" /\ arg' = 0
    /\ UNCHANGED <<chargerFrame, time_step, incoming_ev, electricity_consumption,
                   electricity_consumption_without_partial_load,
                   past_charging_action_values, evVars, energy, energy_kwh, ad_hoc,
                   adjusted,
                   nCharges, twin>>

DoUnplugCar ==
    /\ UnplugCar
    /\ lastOp' = "unplug_car" /\ raised' = "none" /\ arg' = 0
    /\ UNCHANGED <<chargerFrame, time_step, incoming_ev, seriesVars, evVars, energy,
                   energy_kwh, ad_hoc, adjusted, nCharges, twin>>

DoAssociateIncomingCar ==
    /\ AssociateIncomingCar("ev")
    /\ lastOp' = "associate_incoming_car" /\ raised' = "none" /\ arg' = 0
    /\ UNCHANGED <<chargerFrame, time_step, connected_ev, seriesVars, evVars, energy,
                   energy_kwh, ad_hoc, adjusted, nCharges, twin>>

DoDisassociateIncomingCar ==
    /\ DisassociateIncomingCar
    /\ lastOp' = "disassociate_incoming_car" /\ raised' = "none" /\ arg' = 0
    /\ UNCHANGED <<chargerFrame, time_step, connected_ev, seriesVars, evVars, energy,
                   energy_kwh, ad_hoc, adjusted, nCharges, twin>>

DoUpdateConnectedEvSoc ==
    /\ nCharges < MaxCharges
    /\ \E a \in ChargerActions, required \in RequiredSocs :
          /\ UpdateConnectedEvSoc(a, required)
          /\ arg' = a
    /\ nCharges' = nCharges + 1
    /\ lastOp' = "update_connected_ev_soc" /\ raised' = "none"
    /\ UNCHANGED <<chargerFrame, time_step, connected_ev, incoming_ev,
                   past_connected_evs, ev_time_step, ad_hoc, adjusted, twin>>

\* one step of the environment loop: the charger and the vehicle advance
DoNextTimeStep ==
    /\ time_step < MaxTimeSteps
    /\ ChargerNextTimeStep
    /\ \E st \in ChargerStates, est \in EstimatedSocs, draw \in VariationDraws :
          EVNextTimeStep(st, est, draw)
    /\ lastOp' = "next_time_step" /\ raised' = "none" /\ arg' = 0
    /\ UNCHANGED <<chargerFrame, energy, energy_kwh, nCharges, twin>>

ChargerNext ==
    \/ DoPlugCar
    \/ DoUnplugCar
    \/ DoAssociateIncomingCar
    \/ DoDisassociateIncomingCar
    \/ DoUpdateConnectedEvSoc
    \/ DoNextTimeStep

SpecCharger == ChargerSpecInit /\ [][ChargerNext]_vars

\* C10: in update_connected_ev_soc with a connected EV and a positive
\* action, the energy before efficiency scaling is
\* min(action * max_charging_power, capacity - soc[time_step]), so it is
\* never more than the battery's remaining headroom.
C10_ChargingClamp ==
    [][(lastOp' = "update_connected_ev_soc" /\ connected_ev # "None" /\ arg' > 0) =>
           /\ energy' = Min((arg' * max_charging_power) \div ActUnit,
                            battery.capacity - battery.soc[time_step + 1])
           /\ energy' <= battery.capacity - battery.soc[time_step + 1]]_vars

\* capacity 50, SoC 48, a request of +10 (0.2 of 50): 2 is applied and the
\* battery is full
C10_Witness ==
    /\ lastOp = "update_connected_ev_soc"
    /\ connected_ev = "ev"
    /\ arg = ActUnit \div 5
    /\ battery.capacity = 50 * KwhUnit
    /\ energy = 2 * KwhUnit
    /\ battery.soc[time_step + 1] = 48 * KwhUnit + energy_kwh

\* the SoC of the primary battery at the charger's time step, and the floor
\* of 10% of its capacity
CurrentSoc == battery.soc[time_step + 1]

DischargeFloor == battery.capacity \div 10

TraceAtPrevious(series, t) == series[t]

\* series[t], the entry of a per-time-step series for time step t (from 0)
TraceAt(series, t) == series[t + 1]

\* electric_vehicle.next_time_step() reading self.ev_simulation
EVNextTimeStepTraced(draw) ==
    EVNextTimeStep(TraceAt(ev_simulation.ev_charger_state, ev_time_step + 1),
                   TraceAt(ev_simulation.ev_estimated_soc_arrival, ev_time_step + 1),
                   draw)

\* capacity and initial SoC of the vehicle's battery: 50 kWh holding 5, 25
\* and 45 kWh
VehicleBatteries ==
    {<<50 * KwhUnit, 5 * KwhUnit>>, <<50 * KwhUnit, 25 * KwhUnit>>,
     <<50 * KwhUnit, 45 * KwhUnit>>}

\* estimated SoC at arrival, in percent
VehicleEstimatedSocs == {20, 90}

VehicleInit ==
    /\ \E bt \in VehicleBatteries :
          /\ battery = BatteryInit(bt[1], bt[2])
          /\ aux_battery = BatteryInit(AuxCapacity, (bt[2] * AuxCapacity) \div bt[1])
    /\ \E st \in [1..(MaxTimeSteps + 1) -> ChargerStates],
          est \in [1..(MaxTimeSteps + 1) -> VehicleEstimatedSocs] :
          ev_simulation = [ev_charger_state |-> st, ev_estimated_soc_arrival |-> est]
    /\ ev_time_step = 0
    /\ ad_hoc = <<>> /\ adjusted = <<>>
    /\ time_step = 0 /\ connected_ev = "None" /\ incoming_ev = "None"
    /\ electricity_consumption = <<>>
    /\ electricity_consumption_without_partial_load = <<>>
    /\ past_connected_evs = <<>> /\ past_charging_action_values = <<>>
    /\ efficiency = 0 /\ max_charging_power = 0 /\ max_discharging_power = 0
    /\ energy = 0 /\ energy_kwh = 0 /\ nCharges = 0 /\ twin = <<>>
    /\ NoCall
    /\ NoSelect
    /\ NoMemory
    /\ NoLearner
    /\ NoPolicy

DoVehicleNextTimeStep ==
    /\ ev_time_step < MaxTimeSteps
    /\ \E draw \in VariationDraws : EVNextTimeStepTraced(draw)
    /\ lastOp' = "ev_next_time_step" /\ raised' = "none" /\ arg' = 0
    /\ UNCHANGED <<chargerFrame, time_step, connected_ev, incoming_ev, seriesVars,
                   energy, energy_kwh, nCharges, twin>>

VehicleNext == DoVehicleNextTimeStep

SpecVehicle == VehicleInit /\ [][VehicleNext]_vars

LastStored == buffer[((position + capacity - 1) % capacity) + 1]

ExtendedByZero(s, t) ==
    /\ Len(s) = Len(t) + 1
    /\ s[Len(s)] = 0
    /\ \A i \in DOMAIN t : s[i] = t[i]

\* C14: Charger.next_time_step advances the time step by one, gives both
\* consumption series one new entry, 0.0, at the new time step, and leaves
\* connected_ev and incoming_ev null, whatever they were before.
C14_NextTimeStepClears ==
    [][lastOp' = "next_time_step" =>
           /\ time_step' = time_step + 1
           /\ ExtendedByZero(electricity_consumption', electricity_consumption)
           /\ ExtendedByZero(electricity_consumption_without_partial_load',
                             electricity_consumption_without_partial_load)
           /\ Len(electricity_consumption') = time_step' + 1
           /\ Len(electricity_consumption_without_partial_load') = time_step' + 1
           /\ connected_ev' = "None"
           /\ incoming_ev' = "None"]_vars

\* the step after a time step in which an EV was connected and charged
C14_Witness ==
    /\ lastOp = "next_time_step"
    /\ time_step = 1
    /\ past_connected_evs[1] = "ev"
    /\ electricity_consumption[1] > 0
    /\ electricity_consumption = <<electricity_consumption[1], 0>>
    /\ connected_ev = "None" /\ incoming_ev = "None"

\* C15: update_connected_ev_soc(a) with no EV connected, or with a exactly
\* 0, leaves both consumption entries of the current time step at 0 and
\* charges or discharges no battery; a is recorded in
\* past_charging_action_values at the current time step, as it is in every
\* other case.
C15_IdleUpdate ==
    [][lastOp' = "update_connected_ev_soc" =>
           /\ past_charging_action_values'[time_step + 1] = arg'
           /\ (connected_ev = "None" \/ arg' = 0) =>
                  /\ electricity_consumption'[time_step + 1] = 0
                  /\ electricity_consumption_without_partial_load'[time_step + 1] = 0
                  /\ battery' = battery
                  /\ aux_battery' = aux_battery]_vars

\* a full charging action with no EV connected: recorded, nothing charged
C15_Witness ==
    /\ lastOp = "update_connected_ev_soc"
    /\ connected_ev = "None"
    /\ arg = ActUnit
    /\ past_charging_action_values[time_step + 1] = ActUnit
    /\ electricity_consumption[time_step + 1] = 0
    /\ electricity_consumption_without_partial_load[time_step + 1] = 0
    /\ battery.soc[time_step + 1] = battery.initial_soc

(* The charger's preconditions: the calls of the charger spec, with the
   efficiency setter and update_electricity_consumption *)

\* values assigned to efficiency: None, 0, -0.5, 0.9
EfficiencyArgs ==
    {<<TRUE, 0>>, <<FALSE, 0>>, <<FALSE, -(EffUnit \div 2)>>,
     <<FALSE, (9 * EffUnit) \div 10>>}

\* values passed to update_electricity_consumption: -1, 0, 3 kWh
ConsumptionArgs == {-KwhUnit, 0, 3 * KwhUnit}

DoSetEfficiency ==
    /\ \E eff \in EfficiencyArgs :
          /\ EfficiencySetter(eff[1], eff[2])
          /\ arg' = eff
    /\ lastOp' = "set_efficiency"
    /\ UNCHANGED <<memVars, batch, learnerVars, policyVars, selectVars, max_charging_power,
                   max_discharging_power, ev_simulation, time_step, connected_ev,
                   incoming_ev, seriesVars, evVars, energy, energy_kwh, ad_hoc, adjusted,
                   nCharges, twin>>

DoUpdateElectricityConsumption ==
    /\ nCharges < MaxCharges
    /\ \E value \in ConsumptionArgs :
          /\ UpdateElectricityConsumption(value)
          /\ arg' = value
    /\ nCharges' = nCharges + 1
    /\ lastOp' = "update_electricity_consumption"
    /\ UNCHANGED <<chargerFrame, time_step, connected_ev, incoming_ev,
                   electricity_consumption_without_partial_load, past_connected_evs,
                   past_charging_action_values, evVars, energy, energy_kwh, ad_hoc,
                   adjusted, twin>>

GuardsNext ==
    \/ DoSetEfficiency
    \/ DoUpdateElectricityConsumption
    \/ DoPlugCar
    \/ DoUpdateConnectedEvSoc
    \/ DoNextTimeStep

SpecChargerGuards == ChargerSpecInit /\ [][GuardsNext]_vars

\* C16: update_electricity_consumption with a negative value, and setting
\* efficiency to a value <= 0, each end in an assertion failure and leave
\* the consumption series and the stored efficiency as they were; an
\* efficiency of None is stored as 1.0.
C16_PreconditionsFailFast ==
    [][/\ (lastOp' = "update_electricity_consumption" /\ arg' < 0) =>
              /\ raised' = "AssertionError"
              /\ UNCHANGED <<seriesVars, efficiency>>
       /\ (lastOp' = "set_efficiency" /\ ~arg'[1] /\ arg'[2] <= 0) =>
              /\ raised' = "AssertionError"
              /\ UNCHANGED <<seriesVars, efficiency>>
       /\ (lastOp' = "set_efficiency" /\ arg'[1]) =>
              /\ raised' = "none"
              /\ efficiency' = EffUnit]_vars

\* an efficiency of 0 was refused after a consumption of 3 kWh had been
\* recorded with the efficiency at 0.9: both are as they were
C16_Witness ==
    /\ lastOp = "set_efficiency"
    /\ arg = <<FALSE, 0>>
    /\ raised = "AssertionError"
    /\ efficiency = (9 * EffUnit) \div 10
    /\ electricity_consumption[time_step + 1] = 3 * KwhUnit

C18_TargetCriticSchedule ==
    [][lastOp' = "update_parameters" =>
           IF raised' = "none" /\ arg' % target_update_interval = 0
           THEN critic_target' = [i \in DOMAIN critic_target |->
                    (critic_target[i] * (TauDen - TauNum) + critic'[i] * TauNum)
                        \div TauDen]
           ELSE critic_target' = critic_target]_vars

\* update_parameters(1) with an interval of 2: the critic was stepped, the
\* target critic is as the constructor left it
C18_Witness ==
    /\ lastOp = "update_parameters"
    /\ raised = "none"
    /\ arg = 1
    /\ target_update_interval = 2
    /\ critic = <<ParamUnit, 2 * ParamUnit>>
    /\ critic_target = FreshCritic

\* the last entry of a battery's SoC series
LastSoc(b) == b.soc[Len(b.soc)]

\* C19: electric_vehicle.next_time_step first advances both batteries and
\* the clock, then reads the charger-state code at the new time step: on
\* code 2 it adjusts toward ev_estimated_soc_arrival at the new time step,
\* on code 3 toward the battery's own last SoC as a percentage of its
\* capacity, and on any other code it makes no adjustment.
C19_AdjustmentByNewCode ==
    [][lastOp' = "ev_next_time_step" =>
           LET new == ev_time_step + 1
               code == ev_simulation.ev_charger_state[new + 1]
           IN  /\ ev_time_step' = new
               /\ Len(battery'.soc) = Len(battery.soc) + 1
               /\ Len(aux_battery'.soc) = Len(aux_battery.soc) + 1
               /\ code = 2 =>
                      /\ adjusted' # <<>>
                      /\ adjusted'[1].soc_system_connection =
                             ev_simulation.ev_estimated_soc_arrival[new + 1] * PctUnit
               /\ code = 3 =>
                      /\ adjusted' # <<>>
                      /\ adjusted'[1].soc_system_connection * battery.capacity =
                             LastSoc(battery) * 100 * PctUnit
               /\ code \notin {2, 3} =>
                      /\ adjusted' = <<>>
                      /\ LastSoc(battery') = LastSoc(battery)
                      /\ LastSoc(aux_battery') = LastSoc(aux_battery)]_vars

\* a trace with code 2 at time step 0 and code 3 at time step 1: the step
\* to time step 1 adjusted toward the battery's own 50%, not toward the
\* estimated SoC at arrival (20% or 90%)
C19_Witness ==
    /\ lastOp = "ev_next_time_step"
    /\ ev_time_step = 1
    /\ ev_simulation.ev_charger_state[1] = 2
    /\ ev_simulation.ev_charger_state[2] = 3
    /\ adjusted # <<>>
    /\ adjusted[1].soc_system_connection = 50 * PctUnit

\* C20: in adjust_ev_soc_on_system_connection the amount passed to each
\* battery's ad-hoc charge adjustment is the final SoC minus the SoC that
\* battery held immediately before the adjustment (its prior SoC at the
\* current time step), at every time step at which the adjustment runs.
C20_DeltaFromPriorSoc ==
    [][(lastOp' = "next_time_step" /\ adjusted' # <<>>) =>
           /\ ad_hoc'[1] = adjusted'[1].soc_final_kwh - LastSoc(battery)
           /\ ad_hoc'[2] = adjusted'[1].aux_soc_final_kwh - LastSoc(aux_battery)]_vars

----------------------------------------------------------------------------
(* SAC.select_action (agent_SAC.py:202-276) *)

\* observations are in units of 1/ObsUnit
ObsUnit == 10 * 10

\* the thresholds 0.01 and 0.99 of the SoC observation
SocLow == 1
SocHigh == 99

\* flags that include the thresholds themselves
SocFlagInclusive(x) == IF x <= SocLow THEN -1 ELSE IF x >= SocHigh THEN 1 ELSE 0

\* lines 232-237: -1 for an SoC under 0.01, 1 for one over 0.99, else 0
SocFlag(x) == IF x < SocLow THEN -1 ELSE IF x > SocHigh THEN 1 ELSE 0

\* lines 245-253: the action component a under the flag
ApplyFlag(flag, a) ==
    IF flag = -1 THEN (IF a < 0 THEN 0 ELSE a)
    ELSE IF flag = 1 THEN (IF a > 0 THEN 0 ELSE a)
    ELSE a

\* lines 206-207: the state with the autoregressive terms appended; nothing
\* is ever pushed to self.autoregressive_memory, whose buffer is [0]*size
AutoregressiveState(state, size) == state \o [j \in 1..size |-> 0]

\* lines 222-254: the loop over the buildings, from building (from 1) on,
\* with ba_idx and bs_idx the action and state indices (from 0) it has
\* reached
RECURSIVE ConstrainFrom(_, _, _, _, _, _)
ConstrainFrom(building, ba_idx, bs_idx, cfg, state_copy, action) ==
    IF building > Len(cfg.act_size)
    THEN action
    ELSE LET bs_end_idx == bs_idx + cfg.obs_size[building] - cfg.shared_act
             n == cfg.act_size[building]
             soc_flags == [idx \in 1..n |-> SocFlag(state_copy[(bs_end_idx - n) + idx])]
             constrained ==
                 [k \in DOMAIN action |->
                     IF k > ba_idx /\ k <= ba_idx + n
                     THEN ApplyFlag(soc_flags[k - ba_idx], action[k])
                     ELSE action[k]]
         IN  ConstrainFrom(building + 1, ba_idx + n, bs_end_idx, cfg, state_copy,
                           constrained)

\* lines 210-213: the action when learning, the mean when evaluating
SelectedOutput(evaluate, sample) == IF evaluate THEN sample[3] ELSE sample[1]

\* select_action(state), with sample what self.policy.sample returns: the
\* action, its log-probability and the mean
SelectAction(state, sample) ==
    LET state_copy == AutoregressiveState(state, select_cfg.autoregressive_size)
        action == SelectedOutput(select_cfg.evaluate, sample)
        returned == IF select_cfg.constrain_action_space
                    THEN ConstrainFrom(1, 0, select_cfg.shared_act, select_cfg,
                                       state_copy, action)
                    ELSE action
    IN  /\ pi_action' = action
        /\ action_tracker' = Append(action_tracker, returned)
        /\ ret' = returned
        /\ arg' = state
        /\ lastOp' = "select_action" /\ raised' = "none"

\* two buildings: the first with two storage actions and four observations,
\* the second with one storage action and three observations, one of the
\* observations shared; the state is <<shared, b1, soc, soc, b2, soc>>
SelectBuildings ==
    [obs_size |-> <<4, 3>>, act_size |-> <<2, 1>>, shared_act |-> 1,
     autoregressive_size |-> 1]

\* SoC observations: 0, 0.01, 0.99, 1
SocObservations == {0, SocLow, SocHigh, ObsUnit}

\* the other observations lie outside [0.01, 0.99] too
SelectStates ==
    {<<0, ObsUnit, soc[1], soc[2], 0, soc[3]>> : soc \in [1..3 -> SocObservations]}

\* what policy.sample returns: an action of components -0.5 and 0.5, and a
\* mean of the opposite signs
PolicySamples ==
    {<<a, 0, [k \in 1..3 |-> -a[k]]>> :
        a \in [1..3 -> {-(ActUnit \div 2), ActUnit \div 2}]}

SelectInit ==
    /\ \E constrain \in BOOLEAN, evaluate \in BOOLEAN :
          select_cfg = [constrain_action_space |-> constrain, evaluate |-> evaluate,
                        obs_size |-> SelectBuildings.obs_size,
                        act_size |-> SelectBuildings.act_size,
                        shared_act |-> SelectBuildings.shared_act,
                        autoregressive_size |-> SelectBuildings.autoregressive_size]
    /\ action_tracker = <<>>
    /\ NoCall
    /\ NoMemory
    /\ NoLearner
    /\ NoPolicy
    /\ NoCharger

DoSelectAction ==
    /\ Len(action_tracker) < MaxSelects
    /\ \E state \in SelectStates, sample \in PolicySamples : SelectAction(state, sample)
    /\ UNCHANGED <<memVars, batch, netVars, cfgVars, shapeVars, envVars, max_peak,
                   next_q_value, nUpdates, policy_type, action_scale, action_bias,
                   pi_mean, chargerVars, select_cfg>>

SelectNext == DoSelectAction

SpecSelect == SelectInit /\ [][SelectNext]_vars

\* the SoC observations that go with the three action components
SocOfAction == <<arg[3], arg[4], arg[6]>>

\* C21: with constrain_action_space enabled, the action select_action
\* returns and records has no negative component whose SoC observation is
\* below 0.01 and no positive component whose SoC observation is above 0.99
\* (such components are 0), and every other component is the policy's
\* output; with it disabled the returned action is the policy's output.
C21_FeasibleAction ==
    lastOp = "select_action" =>
        /\ action_tracker[Len(action_tracker)] = ret
        /\ DOMAIN ret = DOMAIN pi_action
        /\ IF select_cfg.constrain_action_space
           THEN \A k \in DOMAIN ret :
                   LET low == 100 * SocOfAction[k] < ObsUnit
                       high == 100 * SocOfAction[k] > 99 * ObsUnit
                   IN  /\ ~(ret[k] < 0 /\ low)
                       /\ ~(ret[k] > 0 /\ high)
                       /\ ret[k] = IF (pi_action[k] < 0 /\ low) \/ (pi_action[k] > 0 /\ high)
                                   THEN 0 ELSE pi_action[k]
           ELSE ret = pi_action

\* a call that zeroed a discharge at an empty storage and a charge at a full
\* one, and passed on a discharge at an SoC of exactly 0.01
C21_Witness ==
    /\ lastOp = "select_action"
    /\ select_cfg.constrain_action_space
    /\ SocOfAction = <<0, ObsUnit, SocLow>>
    /\ pi_action = <<-(ActUnit \div 2), ActUnit \div 2, -(ActUnit \div 2)>>
    /\ ret = <<0, 0, -(ActUnit \div 2)>>

\* C22: each add_to_buffer call pushes exactly one transition (states,
\* actions, total_reward, next_states, dones) into the replay buffer and
\* appends exactly one entry, the raw actions, to the autoregressive-action
\* memory and one, the shaped reward, to reward_tracker: after k calls
\* len(reward_tracker) = k, len(autoregressive_action_memory) = 1 + k and
\* len(memory) = min(k, replay_size).
C22_OneEntryPerCall ==
    LET k == Len(net_electric_consumption)
    IN  /\ Len(pushed) = k
        /\ Len(reward_tracker) = k
        /\ Len(autoregressive_action_memory) = 1 + k
        /\ Len(buffer) = IF k < capacity THEN k ELSE capacity
        /\ \A i \in 1..k :
              /\ autoregressive_action_memory[i + 1] = pushed[i][2]
              /\ reward_tracker[i] = pushed[i][3]
        /\ k > 0 =>
              /\ LastStored = pushed[k]
              /\ LastStored[3] = ret[1]

\* five calls into a replay buffer of three
C22_Witness ==
    /\ lastOp = "add_to_buffer"
    /\ Len(net_electric_consumption) = 5
    /\ capacity = 3
    /\ Len(buffer) = 3
    /\ Len(reward_tracker) = 5
    /\ Len(autoregressive_action_memory) = 6

(* The charger of the charger spec, with a reset that ends the run *)

DoReset ==
    /\ ChargerReset
    /\ lastOp' = "reset" /\ raised' = "none" /\ arg' = 0
    /\ UNCHANGED <<chargerFrame, evVars, energy, energy_kwh, ad_hoc, adjusted, nCharges, twin>>

\* once reset, the charger is only reset again
ResetNext ==
    \/ lastOp # "reset" /\ DoPlugCar
    \/ lastOp # "reset" /\ DoUnplugCar
    \/ lastOp # "reset" /\ DoAssociateIncomingCar
    \/ lastOp # "reset" /\ DoDisassociateIncomingCar
    \/ lastOp # "reset" /\ DoUpdateConnectedEvSoc
    \/ lastOp # "reset" /\ DoNextTimeStep
    \/ DoReset

SpecChargerReset == ChargerSpecInit /\ [][ResetNext]_vars

\* C23: after Charger.reset, from any reachable state, the real and the
\* without-partial-load consumption series are each the single element 0.0,
\* the connected-EV history is [None], the action history is [0.0], and
\* connected_ev and incoming_ev are null; a second reset right after the
\* first changes nothing.
C23_ResetState ==
    [][lastOp' = "reset" =>
           /\ electricity_consumption' = <<0>>
           /\ electricity_consumption_without_partial_load' = <<0>>
           /\ past_connected_evs' = <<"None">>
           /\ past_charging_action_values' = <<0>>
           /\ connected_ev' = "None"
           /\ incoming_ev' = "None"
           /\ lastOp = "reset" => UNCHANGED vars]_vars

\* a reset after a time step in which an EV was connected and charged, with
\* an EV incoming: the battery keeps its two entries, the charger starts over
C23_Witness ==
    /\ lastOp = "reset"
    /\ nCharges > 0
    /\ Len(battery.soc) = 2
    /\ battery.electricity_consumption[1] > 0
    /\ time_step = 0
    /\ electricity_consumption = <<0>>
    /\ past_connected_evs = <<"None">>

\* s and t agree on the entries of the time steps before time step n
SamePast(s, t, n) == \A i \in 1..n : s[i] = t[i]

\* C24: between resets the charger's series are append-only: after reset
\* and any sequence of plug_car, unplug_car, update_connected_ev_soc and
\* next_time_step, each of the four per-step series has length
\* time_step + 1, and no operation changes an entry at an index below the
\* current time step.
C24_AppendOnlySeries ==
    /\ [](/\ Len(electricity_consumption) = time_step + 1
          /\ Len(electricity_consumption_without_partial_load) = time_step + 1
          /\ Len(past_connected_evs) = time_step + 1
          /\ Len(past_charging_action_values) = time_step + 1)
    /\ [][/\ SamePast(electricity_consumption', electricity_consumption, time_step)
          /\ SamePast(electricity_consumption_without_partial_load',
                      electricity_consumption_without_partial_load, time_step)
          /\ SamePast(past_connected_evs', past_connected_evs, time_step)
          /\ SamePast(past_charging_action_values', past_charging_action_values,
                      time_step)]_vars

\* a car plugged at time step 1 after one was plugged and charged at time
\* step 0: the entries of time step 0 are still there
C24_Witness ==
    /\ lastOp = "plug_car"
    /\ time_step = 1
    /\ past_connected_evs = <<"ev", "ev">>
    /\ electricity_consumption[1] > 0
    /\ past_charging_action_values[1] # 0
    /\ Len(electricity_consumption) = 2

----------------------------------------------------------------------------
(* Two runs of the same charger and vehicle calls: the variables hold the
   first run, twin holds the batteries and the two consumption series of a
   second run that starts with another auxiliary battery and reads another
   required SoC at departure *)

\* capacity and SoC of the second run's auxiliary battery: 100 kWh holding
\* 10 kWh, 30 kWh holding 30 kWh
TwinAuxBatteries == {<<100 * KwhUnit, 10 * KwhUnit>>, <<30 * KwhUnit, 30 * KwhUnit>>}

\* the second run's required SoC at departure: 0.5, 1.0
TwinRequiredSocs == {EffUnit \div 2, EffUnit}

\* the batteries after electric_vehicle.next_time_step()
SteppedBatteries(b0, aux0, charger_state, estimated, draw) ==
    LET b == BatteryNextTimeStep(b0)
        aux == BatteryNextTimeStep(aux0)
    IN  IF charger_state = 2
        THEN AdjustedBatteries(b, aux, estimated * PctUnit, draw)
        ELSE IF charger_state = 3
        THEN AdjustedBatteries(b, aux, SocPercent(b), draw)
        ELSE <<b, aux>>

TwoRunsInit ==
    /\ ChargerInit(<<FALSE, (9 * EffUnit) \div 10>>, DefaultMaxChargingPower,
                   DefaultMaxDischargingPower)
    /\ \E bt \in EvBatteries, tw \in TwinAuxBatteries :
          /\ battery = BatteryInit(bt[1], bt[2])
          /\ aux_battery = BatteryInit(AuxCapacity, (bt[2] * AuxCapacity) \div bt[1])
          /\ twin = [battery |-> BatteryInit(bt[1], bt[2]),
                     aux_battery |-> BatteryInit(tw[1], tw[2]),
                     electricity_consumption |-> <<0>>,
                     electricity_consumption_without_partial_load |-> <<0>>,
                     energy_aux |-> <<0, 0>>]
    /\ ev_time_step = 0 /\ ev_simulation = <<>>
    /\ energy = 0 /\ energy_kwh = 0 /\ ad_hoc = <<>> /\ adjusted = <<>>
    /\ nCharges = 0
    /\ NoCall
    /\ NoSelect
    /\ NoMemory
    /\ NoLearner
    /\ NoPolicy

\* update_connected_ev_soc(action_value) in the second run
TwinUpdateConnectedEvSoc(action_value, required, twin_required) ==
    IF ChargeApplies(connected_ev, action_value)
    THEN LET out == ChargeOutcome(twin.battery, twin.aux_battery, action_value,
                                  twin_required, time_step)
         IN  twin' = [twin EXCEPT
                 !.battery = out.battery,
                 !.aux_battery = out.aux_battery,
                 !.electricity_consumption[time_step + 1] =
                     out.electricity_consumption,
                 !.electricity_consumption_without_partial_load[time_step + 1] =
                     out.electricity_consumption_without_partial_load,
                 !.energy_aux = <<AuxEnergy(aux_battery, required, time_step),
                                  out.energy_aux>>]
    ELSE twin' = [twin EXCEPT
                 !.electricity_consumption[time_step + 1] = 0,
                 !.electricity_consumption_without_partial_load[time_step + 1] = 0]

DoTwoRunsUpdateConnectedEvSoc ==
    /\ nCharges < MaxCharges
    /\ \E a \in ChargerActions, required \in RequiredSocs,
          twin_required \in TwinRequiredSocs :
          /\ UpdateConnectedEvSoc(a, required)
          /\ TwinUpdateConnectedEvSoc(a, required, twin_required)
          /\ arg' = a
    /\ nCharges' = nCharges + 1
    /\ lastOp' = "update_connected_ev_soc" /\ raised' = "none"
    /\ UNCHANGED <<chargerFrame, time_step, connected_ev, incoming_ev,
                   past_connected_evs, ev_time_step, ad_hoc, adjusted>>

\* one step of the environment loop in both runs
DoTwoRunsNextTimeStep ==
    /\ time_step < MaxTimeSteps
    /\ ChargerNextTimeStep
    /\ \E st \in ChargerStates, est \in EstimatedSocs, draw \in VariationDraws :
          /\ EVNextTimeStep(st, est, draw)
          /\ twin' = [twin EXCEPT
                 !.battery =
                     SteppedBatteries(twin.battery, twin.aux_battery, st, est, draw)[1],
                 !.aux_battery =
                     SteppedBatteries(twin.battery, twin.aux_battery, st, est, draw)[2],
                 !.electricity_consumption = Append(@, 0),
                 !.electricity_consumption_without_partial_load = Append(@, 0)]
    /\ lastOp' = "next_time_step" /\ raised' = "none" /\ arg' = 0
    /\ UNCHANGED <<chargerFrame, energy, energy_kwh, nCharges>>

TwoRunsNext ==
    \/ DoPlugCar
    \/ DoUnplugCar
    \/ DoTwoRunsUpdateConnectedEvSoc
    \/ DoTwoRunsNextTimeStep

SpecTwoRuns == TwoRunsInit /\ [][TwoRunsNext]_vars

\* C25: the stream without partial load does not influence the real one:
\* two runs of the same sequence of charger and EV operations that differ
\* only in the auxiliary battery's state and the required SoC at departure
\* have the same primary-battery SoC and the same real
\* electricity_consumption series at every step, and the auxiliary charge
\* requested in a step is at most max_charging_power.
C25_AuxiliaryDoesNotInfluence ==
    /\ twin.battery = battery
    /\ twin.electricity_consumption = electricity_consumption
    /\ twin.energy_aux[1] <= max_charging_power
    /\ twin.energy_aux[2] <= max_charging_power

\* a charge at time step 1, after the connection adjustment, where the
\* auxiliary batteries and their consumption differ between the runs and
\* the second run's auxiliary request is cut to max_charging_power
C25_Witness ==
    /\ lastOp = "update_connected_ev_soc"
    /\ time_step = 1
    /\ adjusted # <<>>
    /\ electricity_consumption[2] # 0
    /\ twin.aux_battery.soc # aux_battery.soc
    /\ twin.electricity_consumption_without_partial_load[2] #
           electricity_consumption_without_partial_load[2]
    /\ twin.energy_aux[1] < max_charging_power
    /\ twin.energy_aux[2] = max_charging_power

----------------------------------------------------------------------------
(* The hour-of-day term: add_to_buffer at every hour of the day, with mean
   actions on both sides of 0 and of 0.1 *)

\* action vectors of mean -0.2, 0, 0.001, 0.1 and 0.2
HourActions ==
    { <<-(ActUnit \div 5)>>, <<0>>, <<NearZero>>, <<0, ActUnit \div 5>>,
      <<ActUnit \div 5>> }

DoShapeAtHour ==
    /\ Len(pushed) < MaxShapeCalls
    /\ \E h \in 1..HoursPerDay, a \in HourActions :
          AddToBuffer(<<0, 0, h>>, a, 0, <<0, 0, (h % HoursPerDay) + 1>>, FALSE, 0)

HourNext == DoShapeAtHour

SpecHour == ShapeInit /\ [][HourNext]_vars

\* C26: with h the hour at state index 2 and m the mean action, the night
\* term is +1 when m > 0.1 and h is in [1, 12) or [22, 24], else -1 when
\* m < 0 and h is in [1, 8) or [22, 24], else 0; the day term is -1 when
\* m > 0 and h is in [12, 20), else 0; the two are never both nonzero, so
\* their sum is in {-1, 0, +1}.
C26_HourOfDayTerm ==
    lastOp = "add_to_buffer" =>
        LET a == LastActions
            h == pushed[Len(pushed)][1][3]
            sum == SumSeq(a)
            night == IF 10 * sum > ActUnit * Len(a) /\ (h \in 1..11 \/ h \in 22..24)
                     THEN 1
                     ELSE IF sum < 0 /\ (h \in 1..7 \/ h \in 22..24) THEN -1 ELSE 0
            day == IF sum > 0 /\ h \in 12..19 THEN -1 ELSE 0
        IN  /\ ret[5] = 2 * RewUnit * (night + day)
            /\ ~(night # 0 /\ day # 0)
            /\ ret[5] \in {-2 * RewUnit, 0, 2 * RewUnit}

\* a mean action of 0.2 at hour 12: the day term alone applies
C26_Witness ==
    /\ lastOp = "add_to_buffer"
    /\ pushed[Len(pushed)][1][3] = 12
    /\ LastActions = <<ActUnit \div 5>>
    /\ ret[5] = -2 * RewUnit

----------------------------------------------------------------------------
(* reward_function_ma.get_rewards (comix/src/envs/citylearn/
   reward_function.py), the branch with using_marlisa False. Demands are
   whole numbers that float32 holds exactly, and so are their cubes. *)

Demands == {-3, -1, 0, 1, 2}

DemandVectors == UNION {[1..n -> Demands] : n \in 0..MaxAgents}

\* np.array(electricity_demand)**3.0
Cube(e) == e * e * e

\* a reward that keeps the positive cubes
CubicRewardKeepsPositive(e) == Cube(e)

\* reward_ = demand**3.0; reward_[reward_ > 0] = 0
CubicReward(e) == IF Cube(e) > 0 THEN 0 ELSE Cube(e)

\* get_rewards(electricity_demand)
GetRewards(electricity_demand) ==
    [i \in 1..Len(electricity_demand) |-> CubicReward(electricity_demand[i])]

CubicInit ==
    /\ NoCall
    /\ NoSelect
    /\ NoMemory
    /\ NoLearner
    /\ NoPolicy
    /\ NoCharger

DoGetRewards ==
    /\ \E electricity_demand \in DemandVectors :
          /\ ret' = GetRewards(electricity_demand)
          /\ arg' = electricity_demand
    /\ lastOp' = "get_rewards" /\ raised' = "none"
    /\ UNCHANGED <<memVars, batch, netVars, cfgVars, shapeVars, envVars, max_peak,
                   next_q_value, nUpdates, otherVars>>

CubicNext == DoGetRewards

SpecCubic == CubicInit /\ [][CubicNext]_vars

C29_TerminalNoBootstrap ==
    (lastOp = "update_parameters" /\ raised = "none") =>
        \A i \in DOMAIN batch.done :
            IF batch.done[i]
            THEN next_q_value[i] = batch.reward[i]
            ELSE \E q \in QValues :
                    next_q_value[i] = batch.reward[i] + (GammaNum * q) \div GammaDen

\* C30: a discharge command never charges: in update_connected_ev_soc with
\* a connected EV and a negative action, for every SoC in [0, capacity],
\* those under 10% of the capacity included, the energy passed to the
\* primary battery's charge is <= 0.
C30_DischargeNeverCharges ==
    [][(lastOp' = "update_connected_ev_soc" /\ connected_ev # "None" /\ arg' < 0) =>
           energy_kwh' <= 0]_vars

====
